---- MODULE Spec2Model ----
(***************************************************************************)
(* Itinerary planner of nomads-compass-api (app/planner.py): the           *)
(* process-wide APIQuotaHandler, the per-leg create_trip_plan coroutine    *)
(* with its fallbacks to mock data, and create_full_itinerary_plan, which  *)
(* gathers the leg coroutines of one request and renders the report.       *)
(* Coroutines run on one asyncio event loop: a step of the model is the    *)
(* code a coroutine runs between two suspension points.                    *)
(***************************************************************************)
EXTENDS Integers, Sequences, FiniteSets, TLC

\* ------------------------------------------------------------------ bounds
MaxReq == 2      \* planning requests that can be in progress at once
MaxTasks == 2    \* leg coroutines that can exist at once (legs of all requests)
MaxClock == 1    \* distinct values datetime.now() can return
MaxReg == 2      \* register_user calls that can be in progress at once

\* --------------------------------------------------------------- constants
ErrorThreshold == 3
max_retries == 5
initial_retry_delay == 2
TopN == 3
None == -1

Services == <<"flights", "hotels">>
ServiceSet == {Services[i] : i \in 1..Len(Services)}
Reqs == 1..MaxReq
Times == 1..MaxClock
RegIds == 1..MaxReg
NoVisa == "None"

\* ------------------------------------------------------------ python dicts
\* The handler's dicts are read with dict.get(service, default) only, so a
\* missing key and a key holding the default cannot be told apart: a dict is
\* kept as what get returns for each service.
Get(d, k, default) == IF k \in DOMAIN d THEN d[k] ELSE default
Put(d, k, v) == [x \in (DOMAIN d) \cup {k} |-> IF x = k THEN v ELSE d[x]]

\* -------------------------------------------------------- APIQuotaHandler
APIQuotaHandler ==
    [quota_exceeded |-> [s \in ServiceSet |-> FALSE],
     last_check |-> [s \in ServiceSet |-> None],
     error_count |-> [s \in ServiceSet |-> 0]]

is_quota_exceeded(q, service) == Get(q.quota_exceeded, service, FALSE)

\* variant of set_quota_exceeded: one flag for all services
set_quota_exceeded_global(q, service, now) ==
    [q EXCEPT !.quota_exceeded = [s \in DOMAIN @ |-> TRUE],
              !.last_check = Put(@, service, now)]

set_quota_exceeded(q, service, now) ==
    [q EXCEPT !.quota_exceeded = Put(@, service, TRUE),
              !.last_check = Put(@, service, now)]

\* variant of increment_error: the flag follows the counter
increment_error_recompute(q, service, now) ==
    LET q1 == [q EXCEPT !.error_count = Put(@, service, Get(@, service, 0) + 1)]
    IN  [q1 EXCEPT !.quota_exceeded =
                      Put(@, service, q1.error_count[service] >= ErrorThreshold),
                   !.last_check = Put(@, service, now)]

\* variant of increment_error: the threshold is passed, not reached
increment_error_late(q, service, now) ==
    LET q1 == [q EXCEPT !.error_count = Put(@, service, Get(@, service, 0) + 1)]
    IN  IF q1.error_count[service] > ErrorThreshold
        THEN set_quota_exceeded(q1, service, now)
        ELSE q1

\* variant of increment_error: the counter is written from a stale read
increment_error_lost(q, service, now) ==
    LET q1 == [q EXCEPT !.error_count = Put(@, service, 1)]
    IN  IF q1.error_count[service] >= ErrorThreshold
        THEN set_quota_exceeded(q1, service, now)
        ELSE q1

increment_error(q, service, now) ==
    LET q1 == [q EXCEPT !.error_count = Put(@, service, Get(@, service, 0) + 1)]
    IN  IF q1.error_count[service] >= ErrorThreshold
        THEN set_quota_exceeded(q1, service, now)
        ELSE q1

\* variant of reset_quota_status: a reset forgives one counted error
reset_quota_status_decay(q, service) ==
    [quota_exceeded |-> Put(q.quota_exceeded, service, FALSE),
     error_count |-> Put(q.error_count, service,
                         IF Get(q.error_count, service, 0) > 0
                         THEN Get(q.error_count, service, 0) - 1 ELSE 0),
     last_check |-> Put(q.last_check, service, None)]

\* variant of reset_quota_status: the counter survives a reset
reset_quota_status_keep_count(q, service) ==
    [quota_exceeded |-> Put(q.quota_exceeded, service, FALSE),
     error_count |-> q.error_count,
     last_check |-> Put(q.last_check, service, None)]

reset_quota_status(q, service) ==
    [quota_exceeded |-> Put(q.quota_exceeded, service, FALSE),
     error_count |-> Put(q.error_count, service, 0),
     last_check |-> Put(q.last_check, service, None)]

RECURSIVE ResetEach(_, _, _)
ResetEach(q, services, i) ==
    IF i > Len(services) THEN q
    ELSE ResetEach(reset_quota_status(q, services[i]), services, i + 1)

\* variant of reset_all_quota_status: only the first service is reset
reset_all_quota_status_first(q) == reset_quota_status(q, Services[1])

reset_all_quota_status(q) == ResetEach(q, Services, 1)

get_api_status(q) ==
    [s \in ServiceSet |->
        [quota_exceeded |-> is_quota_exceeded(q, s),
         error_count |-> Get(q.error_count, s, 0),
         last_check |-> Get(q.last_check, s, None)]]

\* variant of record_success: a success also leaves substituting mode
record_success_clears(q, service) ==
    [q EXCEPT !.error_count = Put(@, service, 0),
              !.quota_exceeded = Put(@, service, FALSE)]

\* the statement "error_count[service] = 0" after a successful live call
record_success(q, service) == [q EXCEPT !.error_count = Put(@, service, 0)]

\* ----------------------------------------------------------------- schemas
\* pydantic models ignore keyword arguments that are not declared fields:
\* FlightData and HotelData declare no "note" field, so the note is dropped.
FlightData(airline, flight_number, note) ==
    [airline |-> airline, flight_number |-> flight_number]

HotelData(name, location, note) == [name |-> name, location |-> location]

\* a live result item that does not validate as FlightData / HotelData
Malformed == "<malformed>"
BadFlight == [airline |-> Malformed, flight_number |-> Malformed]
BadHotel == [name |-> Malformed, location |-> Malformed]

\* TripPlan(...) validates its fields; a validation error is raised
TripPlan(visa_information, flight_options, hotel_options) ==
    [raised |-> ~(/\ \A i \in 1..Len(flight_options) :
                        flight_options[i].airline # Malformed
                  /\ \A i \in 1..Len(hotel_options) :
                        hotel_options[i].name # Malformed),
     visa_information |-> visa_information,
     flight_options |-> flight_options,
     hotel_options |-> hotel_options]

\* ------------------------------------------------------- destination table
AIRPORT_TO_CITY_INFO ==
    ("BKK" :> [city |-> "Bangkok", country_code |-> "THA"]) @@
    ("SIN" :> [city |-> "Singapore", country_code |-> "SGP"])

\* str.upper() on the airport codes the model uses
Upper(code) ==
    CASE code = "bkk" -> "BKK"
      [] code = "sin" -> "SIN"
      [] code = "zzz" -> "ZZZ"
      [] OTHER -> code

\* destinations a leg can have: two known airports and an unknown one
Dests == {"BKK", "SIN", "ZZZ"}
Origin == "DEL"

\* ---------------------------------------------------------------- mock data
\* a note is the sequence of its words
MockNote == <<"Mock", "data", "API", "quota", "exceeded">>
get_mock_flight_data(origin, destination) ==
    << FlightData("Air India", "AI101", MockNote),
       FlightData("IndiGo", "6E205", MockNote),
       FlightData("Singapore Airlines", "SQ407", MockNote) >>

get_mock_hotel_data(location) ==
    << HotelData("Grand " \o location \o " Hotel", "City Center",
                 MockNote),
       HotelData("Luxury Suites " \o location, "Business District",
                 MockNote),
       HotelData("Budget Inn " \o location, "Downtown",
                 MockNote) >>

\* --------------------------------------------- outcomes of the collaborators
\* An error message is the sequence of its words; "keyword in error_str" is
\* a contiguous match of the keyword's words after lower-casing.
Lower(word) ==
    CASE word = "Quota" -> "quota"
      [] word = "Mock" -> "mock"
      [] word = "Timeout" -> "timeout"
      [] OTHER -> word

LowerAll(msg) == [i \in 1..Len(msg) |-> Lower(msg[i])]

Contains(msg, kw) ==
    \E i \in 1..(Len(msg) - Len(kw) + 1) :
        \A j \in 1..Len(kw) : msg[i + j - 1] = kw[j]

FlightKeywords ==
    << <<"429">>, <<"quota">>, <<"rate", "limit">>, <<"exceeded">>, <<"limit">> >>
HotelKeywords ==
    << <<"429">>, <<"quota">>, <<"rate", "limit">>, <<"exceeded">>, <<"limit">>,
       <<"400">> >>

is_quota_error(msg, keywords) ==
    \E k \in 1..Len(keywords) : Contains(LowerAll(msg), keywords[k])

ErrMsgs ==
    { <<"http", "429">>, <<"Quota", "reached">>, <<"connection", "Timeout">>,
      <<"max", "retries", "exceeded">>, <<"http", "400">> }

\* the messages of EnvQuota: a quota signal, a generic failure, and a message
\* that is a quota signal for hotels only
QuotaMsgs == { <<"http", "429">>, <<"connection", "Timeout">>, <<"http", "400">> }

Ok(v) == [kind |-> "ok", value |-> v, msg |-> <<>>]
Raise(m) == [kind |-> "raise", value |-> <<>>, msg |-> m]
RaiseStr(m) == [kind |-> "raise", value |-> "", msg |-> m]

LiveFlights ==
    << FlightData("British Airways", "BA123", <<>>),
       FlightData("Virgin Atlantic", "VS456", <<>>),
       FlightData("Air India", "AI789", <<>>) >>
LiveHotels ==
    << HotelData("Hyatt Regency", "City Center", <<>>),
       HotelData("Hilton Garden Inn", "Near Airport", <<>>),
       HotelData("Marriott Courtyard", "Business District", <<>>),
       HotelData("Holiday Inn Express", "Downtown", <<>>) >>

VisaOutcomes == {"row", "none", "db_error"}

\* An environment: the itineraries and users the requests come with and the
\* outcomes the collaborators can have.
\* EnvPlan varies what a plan is made of; a failing live call fails with a
\* quota signal.
EnvPlan ==
    [max_requests |-> 1, dests |-> {"BKK", "ZZZ"}, handles |-> {TRUE}, sponsor_fails |-> BOOLEAN,
     visa |-> VisaOutcomes,
     flights |-> {Ok(LiveFlights), Ok(<<BadFlight>>), Raise(<<"http", "429">>)},
     locations |-> {Ok("location-id"), Ok(""), RaiseStr(<<"http", "429">>)},
     hotels |-> {Ok(LiveHotels), Raise(<<"http", "429">>)}]

\* EnvQuota varies what the quota handler is told: every kind of failure of
\* every live call, for legs to a known destination.
EnvQuota ==
    [max_requests |-> MaxReq, dests |-> {"BKK"}, handles |-> {TRUE}, sponsor_fails |-> {FALSE},
     visa |-> {"row"},
     flights |-> {Ok(LiveFlights)} \cup {Raise(m) : m \in QuotaMsgs},
     locations |-> {Ok("location-id"), Ok("")} \cup {RaiseStr(m) : m \in QuotaMsgs},
     hotels |-> {Ok(LiveHotels)} \cup {Raise(m) : m \in QuotaMsgs}]

\* failure messages that carry no "429", "quota" or "rate limit"
TransientMsgs == { <<"connection", "Timeout">>, <<"max", "retries", "exceeded">> }

\* EnvTrip varies what one create_trip_plan call can meet, for one request at
\* a time: every visa outcome, live results of any length, a missing location
\* id, and failures that the fetch functions count or treat as a quota
\* signal; the upstream is flaky but never answers with a rate-limit message.
EnvTrip ==
    [max_requests |-> 1, dests |-> {"BKK"}, handles |-> {TRUE}, sponsor_fails |-> {FALSE},
     visa |-> VisaOutcomes,
     flights |-> {Ok(LiveFlights), Ok(<<>>)} \cup {Raise(m) : m \in TransientMsgs},
     locations |-> {Ok("location-id"), Ok("")},
     hotels |-> {Ok(LiveHotels), Raise(<<"http", "400">>)}]

\* ------------------------------------------ flights.py and hotels.py
\* A capability's outcome together with what the external API did for the
\* call: "ok", "failed", or "none" when no request was sent.
Tagged(out, upstream) == [upstream |-> upstream] @@ out

\* a result returned as a success although the request to the API failed
Masked(out) ==
    out.kind = "ok" /\ "upstream" \in DOMAIN out /\ out.upstream = "failed"

\* what the external API can do with one request whose answer carries items
ApiResponses(items) ==
    {Ok(items), Ok(<<>>), Raise(<<"http", "429">>), Raise(<<"connection", "Timeout">>)}

UpstreamOf(api_key, up) ==
    IF ~api_key THEN "none" ELSE IF up.kind = "ok" THEN "ok" ELSE "failed"

\* every failure is caught and an empty list is returned
search_flights_by_airline(api_key, up) ==
    IF ~api_key THEN <<>>
    ELSE IF up.kind = "ok" THEN up.value ELSE <<>>

major_airlines == <<"AI", "6E", "SQ", "EK">>

RECURSIVE Flatten(_, _)
Flatten(lists, i) ==
    IF i > Len(lists) THEN <<>> ELSE lists[i] \o Flatten(lists, i + 1)

\* the route filter reads attributes FlightData does not declare; when it
\* keeps nothing, or anything fails, the function's own list is returned
search_flights_on_route(origin, destination, api_key, up) ==
    LET results_per_airline ==
            [a \in 1..Len(major_airlines) |-> search_flights_by_airline(api_key, up)]
        all_flights == Flatten(results_per_airline, 1)
        route_flights ==
            SelectSeq(all_flights,
                      LAMBDA flight :
                         /\ "departure" \in DOMAIN flight
                         /\ "arrival" \in DOMAIN flight
                         /\ Upper(flight.departure) = Upper(origin)
                         /\ Upper(flight.arrival) = Upper(destination))
    IN  Tagged(Ok(IF route_flights # <<>> THEN route_flights ELSE LiveFlights),
               UpstreamOf(api_key, up))

city_to_airport == ("Bangkok" :> "BKK") @@ ("Singapore" :> "SIN")
LOCATION_ID_MAP == ("BKK" :> "location-id") @@ ("SIN" :> "location-id-sin")

\* None is the empty string
get_location_id(city_name, api_key, up) ==
    IF city_name \in DOMAIN city_to_airport
    THEN Tagged(Ok(Get(LOCATION_ID_MAP, city_to_airport[city_name], "")), "none")
    ELSE IF ~api_key THEN Tagged(Ok(""), "none")
    ELSE IF up.kind = "ok" THEN Tagged(Ok(up.value), "ok")
    ELSE Tagged(Ok(""), "failed")

\* get_mock_hotels() is LiveHotels
search_hotels_by_location_id(location_id, api_key, up) ==
    IF ~api_key \/ location_id = "" THEN Tagged(Ok(LiveHotels), "none")
    ELSE IF up.kind = "ok"
         THEN Tagged(Ok(IF up.value # <<>> THEN up.value ELSE LiveHotels), "ok")
         ELSE Tagged(Ok(LiveHotels), "failed")

ApiFlights == << FlightData("Thai Airways", "TG316", <<>>) >>
ApiHotels == << HotelData("Riverside Bangkok", "City Center", <<>>) >>

\* EnvLive: the collaborators are this repository's flights.py and hotels.py
\* in front of an external API that answers, answers with nothing, or fails;
\* users with and without a handle, destinations in either letter case.
EnvLive ==
    [max_requests |-> 1, dests |-> {"BKK", "bkk", "ZZZ"}, handles |-> BOOLEAN,
     sponsor_fails |-> {FALSE}, visa |-> {"row"},
     flights |-> {search_flights_on_route(Origin, "BKK", k, up) :
                     k \in BOOLEAN, up \in ApiResponses(ApiFlights)},
     locations |-> {get_location_id("Bangkok", k, up) :
                     k \in BOOLEAN, up \in {Ok("location-id"), RaiseStr(<<"http", "429">>)}},
     hotels |-> {search_hotels_by_location_id("location-id", k, up) :
                     k \in BOOLEAN, up \in ApiResponses(ApiHotels)}]

\* async_crud.get_country_by_code: the query result, or, when the query
\* fails, the handler's own failure (it formats an undefined name)
get_country_by_code(country_code, out) ==
    CASE out = "row" -> Ok(country_code)
      [] out = "none" -> Ok(NoVisa)
      [] OTHER -> RaiseStr(<<"name", "user_id", "is", "not", "defined">>)

\* ------------------------------------------------------------- sponsorship
AVAILABLE_OFFERS ==
    << [brand_name |-> "SkyBags", destination_specific |-> FALSE],
       [brand_name |-> "Nomad Apparel", destination_specific |-> FALSE],
       [brand_name |-> "GoPro India", destination_specific |-> TRUE] >>

RECURSIVE AddDestinationOffers(_, _, _)
AddDestinationOffers(offers, legs, i) ==
    IF i > Len(legs) THEN offers
    ELSE AddDestinationOffers(
            IF /\ legs[i].destination_airport = "BKK"
               /\ ~ \E k \in 1..Len(offers) : offers[k].brand_name = "GoPro India"
            THEN Append(offers, AVAILABLE_OFFERS[3])
            ELSE offers,
            legs, i + 1)

\* variant of get_sponsorship_offers: eligibility is not tested
get_sponsorship_offers_everyone(instagram_handle, legs) ==
    AddDestinationOffers(
        SelectSeq(AVAILABLE_OFFERS, LAMBDA o : ~o.destination_specific), legs, 1)

get_sponsorship_offers(instagram_handle, legs) ==
    IF instagram_handle
    THEN AddDestinationOffers(
            SelectSeq(AVAILABLE_OFFERS, LAMBDA o : ~o.destination_specific), legs, 1)
    ELSE <<>>

\* ---------------------------------------------------------------- variables
VARIABLES
    quota_handler,   \* the module-level APIQuotaHandler instance
    req,             \* req[r]: one create_full_itinerary_plan call
    tasks,           \* tasks[r][i]: the create_trip_plan coroutine of leg i
    order,           \* order[r]: leg indices in the order their tasks finished
    last_op,         \* the last step taken and the service it concerned
    generic_fails,   \* per service: generic failures since last success/reset
    users,           \* the emails of the rows of the users table
    reg,             \* reg[k]: one call of the register_user endpoint
    startup          \* the lifespan coroutine and its init_database call

planner_vars == <<quota_handler, req, tasks, order, last_op, generic_fails>>
app_vars == <<users, reg, startup>>
vars == <<quota_handler, req, tasks, order, last_op, generic_fails, users, reg, startup>>

\* a register_user call that has not been made
IdleReg == [pc |-> "idle", email |-> "", was_registered |-> FALSE,
            password_ok |-> TRUE, db_fault |-> FALSE, status |-> ""]

\* lifespan before its first statement
NotStarted == [pc |-> "init_database", attempt |-> 0, retry_delay |-> initial_retry_delay,
               sleeps |-> <<>>, database_ready |-> FALSE]

Leg(i, dest) == [id |-> i, origin_airport |-> Origin, destination_airport |-> dest]

NoReport == [kind |-> "none", notice |-> <<>>, legs |-> <<>>, sponsorship |-> <<>>]

\* sponsorship_failed notes, beside the call's own data, that the sponsorship
\* computation of the call raised
IdleReq == [pc |-> "idle", instagram_handle |-> FALSE, sponsorship_failed |-> FALSE,
            legs |-> <<>>,
            sponsorship_offers |-> <<>>, leg_plans |-> <<>>, plan_content |-> NoReport]

PendingTask == [pc |-> "pending", visa_info |-> NoVisa,
                flight_options |-> <<>>, hotel_options |-> <<>>]
RaisedTask == [PendingTask EXCEPT !.pc = "raised"]

\* ------------------------------------------------------- create_trip_plan
\* variant of return_trip_plan: a leg whose plan cannot be built starts over
return_trip_plan_retry(t) ==
    IF TripPlan(t.visa_info, t.flight_options, t.hotel_options).raised
    THEN [PendingTask EXCEPT !.pc = "visa"]
    ELSE [t EXCEPT !.pc = "done"]

\* return schemas.TripPlan(...): the coroutine ends with the plan, or with
\* the validation error its construction raises
return_trip_plan(t) ==
    IF TripPlan(t.visa_info, t.flight_options, t.hotel_options).raised
    THEN RaisedTask
    ELSE [t EXCEPT !.pc = "done"]

\* variant of unknown_destination_plan: nothing is put in the lists
unknown_destination_plan_empty == [PendingTask EXCEPT !.pc = "done"]

unknown_destination_plan ==
    [PendingTask EXCEPT
        !.pc = "done",
        !.flight_options = << FlightData("Unknown Route", "N/A",
                                         <<"Route", "information", "not", "available">>) >>,
        !.hotel_options = << HotelData("Hotel information not available", "Unknown",
                                       <<"Destination", "information", "not", "available">>) >>]

\* fetch_hotels_with_fallback up to its first await
hotels_entry(t, q, city_name) ==
    IF is_quota_exceeded(q, "hotels")
    THEN return_trip_plan([t EXCEPT !.hotel_options = get_mock_hotel_data(city_name)])
    ELSE [t EXCEPT !.pc = "hotel_loc"]

\* fetch_flights_with_fallback up to its first await
flights_entry(t, q, leg, city_name) ==
    IF is_quota_exceeded(q, "flights")
    THEN hotels_entry(
            [t EXCEPT !.flight_options =
                get_mock_flight_data(leg.origin_airport, leg.destination_airport)],
            q, city_name)
    ELSE [t EXCEPT !.pc = "flights"]

\* variant of visa_resume: a failed lookup ends the coroutine with the error
visa_resume_abort(t, call, q, leg, city_name) ==
    IF call.kind = "ok"
    THEN flights_entry([t EXCEPT !.visa_info = call.value], q, leg, city_name)
    ELSE RaisedTask

\* create_trip_plan after the visa lookup: the try/except around it, then
\* on to the flight fetch
visa_resume(t, call, q, leg, city_name) ==
    flights_entry([t EXCEPT !.visa_info = IF call.kind = "ok" THEN call.value
                                          ELSE NoVisa],
                  q, leg, city_name)

\* variant of record_failure: every failure is counted
record_failure_counting(q, service, msg, keywords, now) ==
    increment_error(q, service, now)

\* the except clause of the two fetch functions
record_failure(q, service, msg, keywords, now) ==
    IF is_quota_error(msg, keywords)
    THEN set_quota_exceeded(q, service, now)
    ELSE increment_error(q, service, now)

\* variant of flights_resume: a failed search leaves the list empty
flights_resume_no_fallback(q, leg, out, now) ==
    IF out.kind = "ok"
    THEN [q |-> record_success(q, "flights"), options |-> out.value]
    ELSE [q |-> record_failure(q, "flights", out.msg, FlightKeywords, now),
          options |-> <<>>]

\* fetch_flights_with_fallback after its await: new quota state and result
flights_resume(q, leg, out, now) ==
    IF out.kind = "ok"
    THEN [q |-> record_success(q, "flights"), options |-> out.value]
    ELSE [q |-> record_failure(q, "flights", out.msg, FlightKeywords, now),
          options |-> get_mock_flight_data(leg.origin_airport, leg.destination_airport)]

\* variant of location_resume: the search is called with whatever came back
location_resume_search_anyway(q, city_name, out, now) ==
    IF out.kind = "ok"
    THEN [q |-> q, searching |-> TRUE, options |-> <<>>]
    ELSE [q |-> record_failure(q, "hotels", out.msg, HotelKeywords, now),
          searching |-> TRUE, options |-> <<>>]

\* fetch_hotels_with_fallback after awaiting hotels.get_location_id
location_resume(q, city_name, out, now) ==
    IF out.kind = "ok"
    THEN IF out.value # ""
         THEN [q |-> q, searching |-> TRUE, options |-> <<>>]
         ELSE [q |-> q, searching |-> FALSE, options |-> get_mock_hotel_data(city_name)]
    ELSE [q |-> record_failure(q, "hotels", out.msg, HotelKeywords, now),
          searching |-> FALSE, options |-> get_mock_hotel_data(city_name)]

\* fetch_hotels_with_fallback after awaiting hotels.search_hotels_by_location_id
hotels_resume(q, city_name, out, now) ==
    IF out.kind = "ok"
    THEN [q |-> record_success(q, "hotels"), options |-> out.value]
    ELSE [q |-> record_failure(q, "hotels", out.msg, HotelKeywords, now),
          options |-> get_mock_hotel_data(city_name)]

\* what a live-call outcome means to the quota handler
OpOf(out, keywords) ==
    IF out.kind = "ok" THEN (IF Masked(out) THEN "masked_failure" ELSE "success")
    ELSE IF is_quota_error(out.msg, keywords) THEN "quota_signal"
    ELSE "generic_failure"

\* ------------------------------------------- create_full_itinerary_plan
\* variant of sponsorship_deals: no try/except
sponsorship_deals_uncaught(instagram_handle, legs, fails) ==
    [raised |-> fails,
     value |-> IF fails THEN <<>> ELSE get_sponsorship_offers(instagram_handle, legs)]

\* variant of sponsorship_deals: the offers gathered so far are kept
sponsorship_deals_partial(instagram_handle, legs, fails) ==
    [raised |-> FALSE,
     value |-> IF fails
               THEN SelectSeq(AVAILABLE_OFFERS, LAMBDA o : ~o.destination_specific)
               ELSE get_sponsorship_offers(instagram_handle, legs)]

\* the try/except around sponsorship.get_sponsorship_offers
sponsorship_deals(instagram_handle, legs, fails) ==
    IF fails
    THEN [raised |-> FALSE, value |-> <<>>]
    ELSE [raised |-> FALSE, value |-> get_sponsorship_offers(instagram_handle, legs)]

\* variant of gather: results in the order the tasks finished
gather_as_completed(ts, finished) ==
    [raised |-> FALSE,
     results |-> [k \in 1..Len(finished) |->
                    [is_exception |-> ts[finished[k]].pc = "raised",
                     plan |-> TripPlan(ts[finished[k]].visa_info,
                                       ts[finished[k]].flight_options,
                                       ts[finished[k]].hotel_options)]]]

\* asyncio.gather(*leg_plan_tasks, return_exceptions=True): one result per
\* awaitable, in the order the awaitables were passed; an exception is a result
gather(ts, finished) ==
    [raised |-> FALSE,
     results |-> [i \in 1..Len(ts) |->
                    [is_exception |-> ts[i].pc = "raised",
                     plan |-> TripPlan(ts[i].visa_info, ts[i].flight_options,
                                       ts[i].hotel_options)]]]

fallback_plan ==
    TripPlan(NoVisa,
             << FlightData("Error", "N/A", <<"Error", "generating", "plan", "for", "this", "leg">>) >>,
             << HotelData("Error fetching hotels", "Unknown",
                          <<"Error", "fetching", "hotel", "information">>) >>)

\* variant of valid_trip_plans: one failed leg discards every leg's plan
valid_trip_plans_all_or_nothing(results) ==
    [i \in 1..Len(results) |->
        IF \E j \in 1..Len(results) : results[j].is_exception
        THEN fallback_plan ELSE results[i].plan]

valid_trip_plans(results) ==
    [i \in 1..Len(results) |->
        IF results[i].is_exception THEN fallback_plan ELSE results[i].plan]

\* schemas.LegPlan declares leg_details and trip_plan; leg_number is dropped
LegPlan(leg_number, leg_details, trip_plan) ==
    [leg_details |-> leg_details, trip_plan |-> trip_plan]

Min(a, b) == IF a < b THEN a ELSE b

\* zip(itinerary.legs, valid_trip_plans)
zip_leg_plans(legs, plans) ==
    [i \in 1..Min(Len(legs), Len(plans)) |-> LegPlan(i, legs[i], plans[i])]

\* getattr(item, 'note', None) and the test "mock" in note.lower()
mock_indicator(item) ==
    IF "note" \in DOMAIN item
    THEN item.note # <<>> /\ Contains(LowerAll(item.note), <<"mock">>)
    ELSE FALSE

flight_block(options) ==
    IF options # <<>> /\ options[1].airline # "Error"
    THEN [available |-> TRUE, found |-> Len(options),
          entries |-> [j \in 1..Min(TopN, Len(options)) |->
                        [title |-> options[j].airline \o " " \o options[j].flight_number,
                         mock |-> mock_indicator(options[j])]]]
    ELSE [available |-> FALSE, found |-> 0, entries |-> <<>>]

hotel_block(options) ==
    IF options # <<>> /\ options[1].name # "Error fetching hotels"
    THEN [available |-> TRUE, found |-> Len(options),
          entries |-> [j \in 1..Min(TopN, Len(options)) |->
                        [title |-> options[j].name,
                         mock |-> mock_indicator(options[j])]]]
    ELSE [available |-> FALSE, found |-> 0, entries |-> <<>>]

services_on_mock(q) == SelectSeq(Services, LAMBDA s : is_quota_exceeded(q, s))

generate_enhanced_plan_content(leg_plans, deals, q) ==
    [kind |-> "report",
     notice |-> services_on_mock(q),
     legs |-> [i \in 1..Len(leg_plans) |->
        LET leg == leg_plans[i].leg_details
            plan == leg_plans[i].trip_plan
            code == Upper(leg.destination_airport)
        IN  [leg_number |-> i,
             route |-> leg.origin_airport \o " -> " \o leg.destination_airport,
             city |-> IF code \in DOMAIN AIRPORT_TO_CITY_INFO
                      THEN AIRPORT_TO_CITY_INFO[code].city ELSE "Unknown City",
             visa |-> IF plan.visa_information # NoVisa
                      THEN plan.visa_information ELSE "not available",
             flights |-> flight_block(plan.flight_options),
             hotels |-> hotel_block(plan.hotel_options)]],
     sponsorship |-> [i \in 1..Len(deals) |-> deals[i].brand_name]]

\* variant of no_legs_plan: an itinerary without legs is an error
no_legs_plan_error == [IdleReq EXCEPT !.pc = "failed"]

no_legs_plan ==
    [IdleReq EXCEPT !.pc = "done",
                    !.plan_content = [NoReport EXCEPT !.kind = "no_legs"]]

\* the code after "await asyncio.gather": a failure of any stage propagates
assemble(rq, ts, finished, q) ==
    LET g == gather(ts, finished)
        leg_plans == zip_leg_plans(rq.legs, valid_trip_plans(g.results))
    IN  IF g.raised
        THEN [rq EXCEPT !.pc = "failed"]
        ELSE [rq EXCEPT !.pc = "done",
                        !.leg_plans = leg_plans,
                        !.plan_content = generate_enhanced_plan_content(
                                            leg_plans, rq.sponsorship_offers, q)]

\* ------------------------------------------------------------------ state
RECURSIVE SumLen(_, _)
SumLen(f, r) == IF r = 0 THEN 0 ELSE Len(f[r]) + SumLen(f, r - 1)
ActiveTasks == SumLen(tasks, MaxReq)

Itineraries(dests, n) == UNION {[1..k -> dests] : k \in 0..n}

Finished(t) == t.pc \in {"done", "raised"}

CityOf(leg) == AIRPORT_TO_CITY_INFO[Upper(leg.destination_airport)].city
CountryOf(leg) == AIRPORT_TO_CITY_INFO[Upper(leg.destination_airport)].country_code

Op(op, svc) == [op |-> op, svc |-> svc]

\* create_full_itinerary_plan assembles and returns in one step of the event
\* loop: while a request shows its returned value nothing else runs
Returning == \E r \in Reqs : req[r].pc \in {"done", "failed"}

\* bookkeeping of what the quota handler was told, kept beside the handler
Audit(op, svc) ==
    /\ last_op' = Op(op, svc)
    /\ generic_fails' =
          CASE op = "generic_failure" -> [generic_fails EXCEPT ![svc] = @ + 1]
            [] op \in {"success", "masked_failure"} -> [generic_fails EXCEPT ![svc] = 0]
            [] OTHER -> generic_fails

NoAudit ==
    /\ last_op' = Op("other", "none")
    /\ UNCHANGED generic_fails

\* the task of leg i of request r moves to t
SetTask(r, i, t) ==
    /\ tasks' = [tasks EXCEPT ![r][i] = t]
    /\ order' = IF Finished(t) THEN [order EXCEPT ![r] = Append(@, i)] ELSE order

Init ==
    /\ quota_handler = APIQuotaHandler
    /\ req = [r \in Reqs |-> IdleReq]
    /\ tasks = [r \in Reqs |-> <<>>]
    /\ order = [r \in Reqs |-> <<>>]
    /\ last_op = Op("init", "none")
    /\ generic_fails = [s \in ServiceSet |-> 0]
    /\ users = {}
    /\ reg = [k \in RegIds |-> IdleReg]
    /\ startup = NotStarted

\* ---------------------------------------------------------------- actions
\* variant of start_trip_plan: the destination is looked at after the lookup
start_trip_plan_lookup_first(leg) == [PendingTask EXCEPT !.pc = "visa"]

\* create_trip_plan from its start to its first await, the visa lookup
start_trip_plan(leg) ==
    IF Upper(leg.destination_airport) \in DOMAIN AIRPORT_TO_CITY_INFO
    THEN [PendingTask EXCEPT !.pc = "visa"]
    ELSE unknown_destination_plan

\* create_full_itinerary_plan from its call to "await asyncio.gather", and the
\* start of the gathered leg tasks: the event loop runs them next, in leg
\* order, each up to its first await
CreateFullItineraryPlan(r, env) ==
    /\ UNCHANGED app_vars
    /\ ~Returning
    /\ req[r].pc = "idle"
    /\ r <= env.max_requests
    /\ \A r2 \in 1..(r - 1) : req[r2].pc # "idle"
    /\ \E legs \in Itineraries(env.dests, MaxTasks - ActiveTasks),
          instagram_handle \in env.handles, fails \in env.sponsor_fails :
          LET itinerary == [i \in 1..Len(legs) |-> Leg(i, legs[i])]
              sp == sponsorship_deals(instagram_handle, itinerary, fails)
              started == [i \in 1..Len(legs) |-> start_trip_plan(itinerary[i])]
              running == legs # <<>> /\ ~sp.raised
          IN  /\ req' = [req EXCEPT ![r] =
                    IF legs = <<>>
                    THEN [no_legs_plan EXCEPT !.instagram_handle = instagram_handle]
                    ELSE IF sp.raised
                    THEN [IdleReq EXCEPT !.pc = "failed",
                                         !.sponsorship_failed = fails,
                                         !.instagram_handle = instagram_handle]
                    ELSE [IdleReq EXCEPT !.pc = "gather", !.legs = itinerary,
                                         !.sponsorship_failed = fails,
                                         !.instagram_handle = instagram_handle,
                                         !.sponsorship_offers = sp.value]]
              /\ tasks' = [tasks EXCEPT ![r] = IF running THEN started ELSE <<>>]
              /\ order' = [order EXCEPT ![r] =
                    IF running
                    THEN SelectSeq([i \in 1..Len(legs) |-> i],
                                   LAMBDA i : Finished(started[i]))
                    ELSE <<>>]
    /\ NoAudit
    /\ UNCHANGED quota_handler

\* the visa lookup returns; the task goes on to the flight fetch
VisaReturn(r, i, env) ==
    /\ UNCHANGED app_vars
    /\ ~Returning
    /\ i \in DOMAIN tasks[r]
    /\ tasks[r][i].pc = "visa"
    /\ \E out \in env.visa :
          LET leg == req[r].legs[i]
              call == get_country_by_code(CountryOf(leg), out)
          IN  /\ SetTask(r, i, visa_resume(tasks[r][i], call, quota_handler,
                                            leg, CityOf(leg)))
              /\ last_op' = Op(IF call.kind = "ok" THEN "other" ELSE "visa_failure",
                               "none")
    /\ UNCHANGED generic_fails
    /\ UNCHANGED <<quota_handler, req>>

\* flights.search_flights_on_route returns or fails
FlightsReturn(r, i, env) ==
    /\ UNCHANGED app_vars
    /\ ~Returning
    /\ i \in DOMAIN tasks[r]
    /\ tasks[r][i].pc = "flights"
    /\ \E out \in env.flights, now \in Times :
          LET leg == req[r].legs[i]
              res == flights_resume(quota_handler, leg, out, now)
          IN  /\ quota_handler' = res.q
              /\ SetTask(r, i, hotels_entry(
                    [tasks[r][i] EXCEPT !.flight_options = res.options],
                    res.q, CityOf(leg)))
              /\ Audit(OpOf(out, FlightKeywords), "flights")
    /\ UNCHANGED req

\* hotels.get_location_id returns or fails
LocationReturn(r, i, env) ==
    /\ UNCHANGED app_vars
    /\ ~Returning
    /\ i \in DOMAIN tasks[r]
    /\ tasks[r][i].pc = "hotel_loc"
    /\ \E out \in env.locations, now \in Times :
          LET res == location_resume(quota_handler, CityOf(req[r].legs[i]), out, now)
          IN  /\ quota_handler' = res.q
              /\ SetTask(r, i,
                    IF res.searching
                    THEN [tasks[r][i] EXCEPT !.pc = "hotel_search"]
                    ELSE return_trip_plan(
                            [tasks[r][i] EXCEPT !.hotel_options = res.options]))
              /\ IF out.kind = "ok"
                 THEN /\ last_op' = Op(IF out.value # "" THEN "location"
                                        ELSE "no_location", "hotels")
                      /\ UNCHANGED generic_fails
                 ELSE Audit(OpOf(out, HotelKeywords), "hotels")
    /\ UNCHANGED req

\* hotels.search_hotels_by_location_id returns or fails
HotelsReturn(r, i, env) ==
    /\ UNCHANGED app_vars
    /\ ~Returning
    /\ i \in DOMAIN tasks[r]
    /\ tasks[r][i].pc = "hotel_search"
    /\ \E out \in env.hotels, now \in Times :
          LET res == hotels_resume(quota_handler, CityOf(req[r].legs[i]), out, now)
          IN  /\ quota_handler' = res.q
              /\ SetTask(r, i, return_trip_plan(
                    [tasks[r][i] EXCEPT !.hotel_options = res.options]))
              /\ Audit(OpOf(out, HotelKeywords), "hotels")
    /\ UNCHANGED req

\* gather is complete: the request assembles the leg plans and the report
Assemble(r) ==
    /\ UNCHANGED app_vars
    /\ ~Returning
    /\ req[r].pc = "gather"
    /\ \A i \in DOMAIN tasks[r] : Finished(tasks[r][i])
    /\ req' = [req EXCEPT ![r] = assemble(req[r], tasks[r], order[r], quota_handler)]
    /\ NoAudit
    /\ UNCHANGED <<quota_handler, tasks, order>>

\* slots r..MaxReq of f move down by one and the last slot becomes free
Release(f, r, free) ==
    [k \in Reqs |-> IF k < r THEN f[k] ELSE IF k < MaxReq THEN f[k + 1] ELSE free]

\* the caller takes the result; requests in progress keep the first slots
Return(r) ==
    /\ UNCHANGED app_vars
    /\ req[r].pc \in {"done", "failed"}
    /\ req' = Release(req, r, IdleReq)
    /\ tasks' = Release(tasks, r, <<>>)
    /\ order' = Release(order, r, <<>>)
    /\ NoAudit
    /\ UNCHANGED quota_handler

ResetQuotaStatus(s) ==
    /\ UNCHANGED app_vars
    /\ ~Returning
    /\ quota_handler' = reset_quota_status(quota_handler, s)
    /\ last_op' = Op("reset", s)
    /\ generic_fails' = [generic_fails EXCEPT ![s] = 0]
    /\ UNCHANGED <<req, tasks, order>>

ResetAllQuotaStatus ==
    /\ UNCHANGED app_vars
    /\ ~Returning
    /\ quota_handler' = reset_all_quota_status(quota_handler)
    /\ last_op' = Op("reset_all", "none")
    /\ generic_fails' = [s \in ServiceSet |-> 0]
    /\ UNCHANGED <<req, tasks, order>>

\* ------------------------------------------------- lifespan, init_database
\* variant of attempt_failed: the last failure is retried like the others
attempt_failed_always_retry(st) ==
    [st EXCEPT !.pc = "sleep", !.sleeps = Append(@, st.retry_delay)]

\* the except clause of init_database: sleep before a retry, or give up
attempt_failed(st) ==
    IF st.attempt < max_retries - 1
    THEN [st EXCEPT !.pc = "sleep", !.sleeps = Append(@, st.retry_delay)]
    ELSE [st EXCEPT !.pc = "serving", !.database_ready = FALSE]

\* one pass of the loop of init_database: create_all succeeds or raises
InitDatabaseAttempt(ok) ==
    /\ startup.pc = "init_database"
    /\ startup.attempt < max_retries
    /\ startup' = IF ok
                  THEN [startup EXCEPT !.pc = "test_connection",
                                       !.database_ready = TRUE]
                  ELSE attempt_failed(startup)
    /\ UNCHANGED <<users, reg>>
    /\ UNCHANGED planner_vars

\* asyncio.sleep(retry_delay) returns: the delay doubles, next attempt
SleepReturn ==
    /\ startup.pc = "sleep"
    /\ startup' = [startup EXCEPT !.pc = "init_database",
                                  !.retry_delay = @ * 2,
                                  !.attempt = @ + 1]
    /\ UNCHANGED <<users, reg>>
    /\ UNCHANGED planner_vars

\* test_database_connection returns True or False; lifespan yields either way
TestConnection(ok) ==
    /\ startup.pc = "test_connection"
    /\ startup' = [startup EXCEPT !.pc = "serving"]
    /\ UNCHANGED <<users, reg>>
    /\ UNCHANGED planner_vars

\* ------------------------------------------------------------ register_user
\* the addresses users register with; email.strip().lower() on them
Emails == {"bob@x.io", "Bob@x.io"}
EmailLower(email) == IF email = "Bob@x.io" THEN "bob@x.io" ELSE email

Respond(call, status) == [call EXCEPT !.pc = "responded", !.status = status]

\* register_user from its call to "await get_user_by_email"
RegisterUser(k, email, password_ok) ==
    /\ startup.pc = "serving"
    /\ reg[k].pc = "idle"
    /\ \A k2 \in 1..(k - 1) : reg[k2].pc # "idle"
    /\ reg' = [reg EXCEPT ![k] =
                  IF ~password_ok
                  THEN Respond([IdleReg EXCEPT !.email = email,
                                               !.password_ok = FALSE,
                                               !.was_registered = email \in users],
                               "400 Password must be at least 6 characters long")
                  ELSE [IdleReg EXCEPT !.pc = "lookup", !.email = email,
                                       !.was_registered = email \in users]]
    /\ UNCHANGED <<users, startup>>
    /\ UNCHANGED planner_vars

\* get_user_by_email returns the row, or None when there is none or when
\* the query failed
LookupReturn(k, query_fails) ==
    /\ reg[k].pc = "lookup"
    /\ LET db_user == ~query_fails /\ EmailLower(reg[k].email) \in users
       IN  reg' = [reg EXCEPT ![k] =
                     IF db_user THEN Respond(@, "400 Email already registered")
                     ELSE [@ EXCEPT !.pc = "commit",
                                    !.db_fault = query_fails]]
    /\ UNCHANGED <<users, startup>>
    /\ UNCHANGED planner_vars

\* create_user commits: the unique index on users.email rejects a second row
\* with the same email; any failure is rolled back and answered with 500
CommitReturn(k, commit_fails) ==
    /\ reg[k].pc = "commit"
    /\ IF commit_fails \/ reg[k].email \in users
       THEN /\ reg' = [reg EXCEPT ![k] =
                         Respond([@ EXCEPT !.db_fault = @ \/ commit_fails],
                                 "500 Internal server error during registration")]
            /\ UNCHANGED users
       ELSE /\ reg' = [reg EXCEPT ![k] = Respond(@, "200")]
            /\ users' = users \cup {reg[k].email}
    /\ UNCHANGED startup
    /\ UNCHANGED planner_vars

\* the client has its response
RegisterReturn(k) ==
    /\ reg[k].pc = "responded"
    /\ reg' = [reg EXCEPT ![k] = IdleReg]
    /\ UNCHANGED <<users, startup>>
    /\ UNCHANGED planner_vars

NextApp ==
    \/ \E ok \in BOOLEAN : InitDatabaseAttempt(ok)
    \/ SleepReturn
    \/ \E ok \in BOOLEAN : TestConnection(ok)
    \/ \E k \in RegIds, email \in Emails, password_ok \in BOOLEAN :
          RegisterUser(k, email, password_ok)
    \/ \E k \in RegIds, query_fails \in BOOLEAN : LookupReturn(k, query_fails)
    \/ \E k \in RegIds, commit_fails \in BOOLEAN : CommitReturn(k, commit_fails)
    \/ \E k \in RegIds : RegisterReturn(k)

\* the event loop runs a coroutine that can run, and create_all, sleep and
\* the connection test return
SpecApp ==
    /\ Init
    /\ [][NextApp]_vars
    /\ WF_vars(\E ok \in BOOLEAN : InitDatabaseAttempt(ok))
    /\ WF_vars(SleepReturn)
    /\ WF_vars(\E ok \in BOOLEAN : TestConnection(ok))

Next ==
    \/ \E r \in Reqs : CreateFullItineraryPlan(r, EnvPlan)
    \/ \E r \in Reqs, i \in 1..MaxTasks : VisaReturn(r, i, EnvPlan)
    \/ \E r \in Reqs, i \in 1..MaxTasks : FlightsReturn(r, i, EnvPlan)
    \/ \E r \in Reqs, i \in 1..MaxTasks : LocationReturn(r, i, EnvPlan)
    \/ \E r \in Reqs, i \in 1..MaxTasks : HotelsReturn(r, i, EnvPlan)
    \/ \E r \in Reqs : Assemble(r)
    \/ \E r \in Reqs : Return(r)
    \/ \E s \in ServiceSet : ResetQuotaStatus(s)
    \/ ResetAllQuotaStatus

Spec == Init /\ [][Next]_vars

\* a step of a planning call that is under way: an awaited call returns or
\* fails, or the gather is complete and the call resumes
Progress ==
    \/ \E r \in Reqs, i \in 1..MaxTasks : VisaReturn(r, i, EnvPlan)
    \/ \E r \in Reqs, i \in 1..MaxTasks : FlightsReturn(r, i, EnvPlan)
    \/ \E r \in Reqs, i \in 1..MaxTasks : LocationReturn(r, i, EnvPlan)
    \/ \E r \in Reqs, i \in 1..MaxTasks : HotelsReturn(r, i, EnvPlan)
    \/ \E r \in Reqs : Assemble(r)

\* every awaited call returns or fails and the event loop keeps running
SpecFair == Spec /\ WF_vars(Progress)

NextQuota ==
    \/ \E r \in Reqs : CreateFullItineraryPlan(r, EnvQuota)
    \/ \E r \in Reqs, i \in 1..MaxTasks : VisaReturn(r, i, EnvQuota)
    \/ \E r \in Reqs, i \in 1..MaxTasks : FlightsReturn(r, i, EnvQuota)
    \/ \E r \in Reqs, i \in 1..MaxTasks : LocationReturn(r, i, EnvQuota)
    \/ \E r \in Reqs, i \in 1..MaxTasks : HotelsReturn(r, i, EnvQuota)
    \/ \E r \in Reqs : Assemble(r)
    \/ \E r \in Reqs : Return(r)
    \/ \E s \in ServiceSet : ResetQuotaStatus(s)
    \/ ResetAllQuotaStatus

SpecQuota == Init /\ [][NextQuota]_vars

NextTrip ==
    \/ \E r \in Reqs : CreateFullItineraryPlan(r, EnvTrip)
    \/ \E r \in Reqs, i \in 1..MaxTasks : VisaReturn(r, i, EnvTrip)
    \/ \E r \in Reqs, i \in 1..MaxTasks : FlightsReturn(r, i, EnvTrip)
    \/ \E r \in Reqs, i \in 1..MaxTasks : LocationReturn(r, i, EnvTrip)
    \/ \E r \in Reqs, i \in 1..MaxTasks : HotelsReturn(r, i, EnvTrip)
    \/ \E r \in Reqs : Assemble(r)
    \/ \E r \in Reqs : Return(r)
    \/ \E s \in ServiceSet : ResetQuotaStatus(s)
    \/ ResetAllQuotaStatus

SpecTrip == Init /\ [][NextTrip]_vars

NextLive ==
    \/ \E r \in Reqs : CreateFullItineraryPlan(r, EnvLive)
    \/ \E r \in Reqs, i \in 1..MaxTasks : VisaReturn(r, i, EnvLive)
    \/ \E r \in Reqs, i \in 1..MaxTasks : FlightsReturn(r, i, EnvLive)
    \/ \E r \in Reqs, i \in 1..MaxTasks : LocationReturn(r, i, EnvLive)
    \/ \E r \in Reqs, i \in 1..MaxTasks : HotelsReturn(r, i, EnvLive)
    \/ \E r \in Reqs : Assemble(r)
    \/ \E r \in Reqs : Return(r)
    \/ \E s \in ServiceSet : ResetQuotaStatus(s)
    \/ ResetAllQuotaStatus

SpecLive == Init /\ [][NextLive]_vars

\* ================================================================= claims
\* the TripPlan a finished leg task returned
ResultOf(t) == TripPlan(t.visa_info, t.flight_options, t.hotel_options)

IsDone(r) == req[r].pc = "done" /\ req[r].legs # <<>>

\* C1: a returned plan has exactly one leg-plan per leg, and the i-th leg-plan
\* pairs the i-th leg with the result of the task started for that leg,
\* whatever the order in which the tasks finished.
C1_OrderPreserved ==
    \A r \in Reqs : IsDone(r) =>
        /\ Len(req[r].leg_plans) = Len(req[r].legs)
        /\ \A i \in 1..Len(req[r].legs) :
              /\ req[r].leg_plans[i].leg_details = req[r].legs[i]
              /\ tasks[r][i].pc = "done" =>
                    req[r].leg_plans[i].trip_plan = ResultOf(tasks[r][i])

\* two legs whose tasks finished in the reverse order with different results
C1_Witness ==
    \E r \in Reqs :
        /\ IsDone(r)
        /\ order[r] = <<2, 1>>
        /\ tasks[r][1].pc = "done" /\ tasks[r][2].pc = "done"
        /\ ResultOf(tasks[r][1]) # ResultOf(tasks[r][2])
        /\ req[r].legs[1].destination_airport = req[r].legs[2].destination_airport

\* C2: create_full_itinerary_plan never ends with a failure, and what it
\* returns is complete: leg plans for all legs, the offers, and a report with
\* a section per leg, whatever the collaborators did.
C2_NeverFails ==
    \A r \in Reqs :
        /\ req[r].pc # "failed"
        /\ req[r].pc = "done" =>
              /\ Len(req[r].leg_plans) = Len(req[r].legs)
              /\ req[r].plan_content.kind =
                    (IF req[r].legs = <<>> THEN "no_legs" ELSE "report")
              /\ Len(req[r].plan_content.legs) = Len(req[r].legs)
              /\ Len(req[r].plan_content.sponsorship) = Len(req[r].sponsorship_offers)

\* sponsorship failed (no offers for a user with a handle), one leg task
\* raised, and the other leg got no visa and substitute flights and hotels
C2_Witness ==
    \E r \in Reqs :
        /\ IsDone(r)
        /\ Len(req[r].legs) = 2
        /\ req[r].sponsorship_offers = <<>>
        /\ tasks[r][1].pc = "raised"
        /\ tasks[r][2].pc = "done"
        /\ tasks[r][2].visa_info = NoVisa
        /\ tasks[r][2].flight_options = get_mock_flight_data(Origin, "BKK")
        /\ tasks[r][2].hotel_options = get_mock_hotel_data("Bangkok")

\* C3: a leg whose task failed gets the error plan (no visa, one "Error"
\* flight, one error hotel), every other leg keeps the plan its own task
\* returned, and there is still one leg-plan per leg.
C3_FailureIsolated ==
    \A r \in Reqs : IsDone(r) =>
        /\ Len(req[r].leg_plans) = Len(req[r].legs)
        /\ \A i \in 1..Len(req[r].legs) :
              LET plan == req[r].leg_plans[i].trip_plan
              IN  IF tasks[r][i].pc = "raised"
                  THEN /\ plan.visa_information = NoVisa
                       /\ Len(plan.flight_options) = 1
                       /\ plan.flight_options[1].airline = "Error"
                       /\ Len(plan.hotel_options) = 1
                       /\ plan.hotel_options[1].name = "Error fetching hotels"
                  ELSE /\ plan.visa_information = tasks[r][i].visa_info
                       /\ plan.flight_options = tasks[r][i].flight_options
                       /\ plan.hotel_options = tasks[r][i].hotel_options
                       /\ plan.flight_options[1].airline # "Error"

\* exactly one of two legs failed; the other has live flights and hotels
C3_Witness ==
    \E r \in Reqs :
        /\ IsDone(r)
        /\ Len(req[r].legs) = 2
        /\ tasks[r][2].pc = "raised"
        /\ tasks[r][1].pc = "done"
        /\ req[r].leg_plans[1].trip_plan.flight_options = LiveFlights
        /\ req[r].leg_plans[1].trip_plan.hotel_options = LiveHotels
        /\ req[r].leg_plans[1].trip_plan.visa_information = "THA"

Flag(s) == is_quota_exceeded(quota_handler, s)
Count(s) == Get(quota_handler.error_count, s, 0)
TaskIds == {<<r, i>> \in Reqs \X (1..MaxTasks) : i \in DOMAIN tasks[r]}

\* C4: once a service's flag is set, no step clears it except
\* reset_quota_status of that service or reset_all_quota_status.
C4_MonotonicUntilReset ==
    [][\A s \in ServiceSet :
          (Flag(s) /\ ~Flag(s)') =>
             (last_op' = Op("reset", s) \/ last_op'.op = "reset_all")]_vars

\* the flag was set by a quota signal, then a call in flight failed with a
\* generic error, and the flag is still set while a request is in progress
C4_Witness ==
    /\ Flag("flights")
    /\ last_op = Op("generic_failure", "flights")
    /\ Count("flights") < ErrorThreshold
    /\ \E r \in Reqs : req[r].pc = "gather"

\* C5: counting from a fresh or reset state, the first and second generic
\* failure leave the flag unset, and the third sets it and records the time.
C5_ThirdErrorTrips ==
    [][\A s \in ServiceSet :
          last_op' = Op("generic_failure", s) =>
             /\ (generic_fails'[s] \in {1, 2} /\ ~Flag(s)) => ~Flag(s)'
             /\ generic_fails'[s] = ErrorThreshold =>
                   (Flag(s)' /\ quota_handler'.last_check[s] # None)]_vars

\* the third generic failure in a row has just been counted
C5_Witness ==
    /\ last_op = Op("generic_failure", "flights")
    /\ generic_fails["flights"] = ErrorThreshold
    /\ Flag("flights")
    /\ quota_handler.last_check["flights"] \in Times

\* C6: a quota signal sets the flag at once and leaves the counter alone.
C6_QuotaSignalImmediate ==
    [][\A s \in ServiceSet :
          last_op' = Op("quota_signal", s) =>
             /\ Flag(s)'
             /\ quota_handler'.error_count[s] = quota_handler.error_count[s]]_vars

\* a quota signal arrived when two generic failures had been counted
C6_Witness ==
    /\ last_op = Op("quota_signal", "hotels")
    /\ Count("hotels") = 2
    /\ Flag("hotels")

\* C7: a live call starts only while its service's flag is unset (a task
\* enters the flight search, the location lookup or the hotel search).
C7_NoLiveCallWhileSubstituting ==
    [][~Returning =>
          \A id \in TaskIds :
             LET t == tasks[id[1]][id[2]]
                 t2 == tasks'[id[1]][id[2]]
             IN  /\ (t.pc # "flights" /\ t2.pc = "flights") => ~Flag("flights")
                 /\ (t.pc # "hotel_loc" /\ t2.pc = "hotel_loc") => ~Flag("hotels")
                 /\ (t.pc # "hotel_search" /\ t2.pc = "hotel_search")
                       => ~Flag("hotels")]_vars

\* C8: the counter of a service equals the number of generic failures since
\* the last success or reset, under every interleaving, and a generic failure
\* sets the flag exactly when that number reaches the threshold.
C8_NoLostUpdates ==
    /\ [](\A s \in ServiceSet : Count(s) = generic_fails[s])
    /\ [][\A s \in ServiceSet :
             last_op' = Op("generic_failure", s) =>
                (Flag(s)' <=> (Flag(s) \/ generic_fails'[s] >= ErrorThreshold))]_vars

\* two leg tasks of one request each had a flight search fail generically
C8_Witness ==
    /\ Count("flights") = 2
    /\ ~Flag("flights")
    /\ \E r \in Reqs :
          /\ req[r].pc = "gather"
          /\ Len(tasks[r]) = 2
          /\ \A i \in 1..2 :
                tasks[r][i].flight_options = get_mock_flight_data(Origin, "BKK")

\* C9: a successful live call zeroes the counter of its service and leaves
\* the flag as it was, set or unset.
C9_SuccessKeepsFlag ==
    [][\A s \in ServiceSet :
          last_op' = Op("success", s) =>
             /\ quota_handler'.error_count[s] = 0
             /\ Flag(s)' = Flag(s)]_vars

\* a call that was in flight when the flag was set has succeeded
C9_Witness ==
    /\ last_op = Op("success", "flights")
    /\ Flag("flights")
    /\ Count("flights") = 0

AllClear ==
    [s \in ServiceSet |->
        [quota_exceeded |-> FALSE, error_count |-> 0, last_check |-> None]]

\* C10: right after reset_all_quota_status the status of every service is
\* clear, and a planning step taken then starts the live call.
C10_ResetAll ==
    /\ [](last_op.op = "reset_all" => get_api_status(quota_handler) = AllClear)
    /\ [][last_op.op = "reset_all" =>
             \A id \in TaskIds :
                LET t == tasks[id[1]][id[2]]
                    t2 == tasks'[id[1]][id[2]]
                IN  /\ (t.pc = "visa" /\ t2.pc # "visa") => t2.pc = "flights"
                    /\ (t.pc = "flights" /\ t2.pc # "flights")
                          => t2.pc = "hotel_loc"]_vars

\* reset_all_quota_status ran while one leg had substitute flights and
\* another leg had not yet reached its flight fetch
C10_Witness ==
    /\ last_op.op = "reset_all"
    /\ \E r \in Reqs :
          /\ req[r].pc = "gather"
          /\ \E i \in DOMAIN tasks[r] : tasks[r][i].pc = "visa"
          /\ \E i \in DOMAIN tasks[r] :
                tasks[r][i].flight_options = get_mock_flight_data(Origin, "BKK")

\* C11: reset_quota_status is idempotent: in every reachable quota state,
\* resetting a service twice gives the same flag, counter and last-change
\* value for every service as resetting it once, and a reset that directly
\* follows a reset of the same service changes nothing.
C11_ResetIdempotent ==
    /\ [](\A s \in ServiceSet :
            reset_quota_status(reset_quota_status(quota_handler, s), s)
               = reset_quota_status(quota_handler, s))
    /\ [][\A s \in ServiceSet :
             (last_op = Op("reset", s) /\ last_op' = Op("reset", s))
                => quota_handler' = quota_handler]_vars

\* flights has just been reset from a tripped state while hotels is still
\* substituting after three counted errors
C11_Witness ==
    /\ last_op = Op("reset", "flights")
    /\ get_api_status(quota_handler)["flights"] = AllClear["flights"]
    /\ generic_fails["hotels"] = ErrorThreshold
    /\ Flag("hotels")
    /\ quota_handler.last_check["hotels"] \in Times

KnownDestination(leg) == Upper(leg.destination_airport) \in DOMAIN AIRPORT_TO_CITY_INFO

\* C12: for a leg whose destination is not in the destination table,
\* create_trip_plan returns at once a TripPlan with no visa information,
\* exactly one flight entry and exactly one hotel entry, both placeholders
\* that say the information is not available.
C12_UnknownDestination ==
    \A id \in TaskIds :
        LET t == tasks[id[1]][id[2]]
            plan == ResultOf(t)
        IN  ~KnownDestination(req[id[1]].legs[id[2]]) =>
               /\ t.pc = "done"
               /\ ~plan.raised
               /\ plan.visa_information = NoVisa
               /\ Len(plan.flight_options) = 1
               /\ plan.flight_options[1].airline = "Unknown Route"
               /\ plan.flight_options[1].flight_number = "N/A"
               /\ Len(plan.hotel_options) = 1
               /\ plan.hotel_options[1].name = "Hotel information not available"
               /\ plan.hotel_options[1].location = "Unknown"

\* a leg to an unknown airport has its plan while the leg to a known airport
\* of the same itinerary is still at its visa lookup
C12_Witness ==
    \E r \in Reqs :
        /\ req[r].pc = "gather"
        /\ Len(tasks[r]) = 2
        /\ req[r].legs[1].destination_airport = "ZZZ"
        /\ tasks[r][1].pc = "done"
        /\ Len(tasks[r][1].flight_options) = 1
        /\ req[r].legs[2].destination_airport = "BKK"
        /\ tasks[r][2].pc = "visa"

FailureOps == {"generic_failure", "quota_signal"}

\* C13: create_trip_plan for a known destination never ends with an error,
\* whatever the visa lookup, the quota state and the live calls did: it
\* returns a TripPlan, and a live call that failed, or that was not made
\* because its service is substituting, is replaced by substitute data.
C13_TripPlanNeverFails ==
    /\ [](\A id \in TaskIds :
            LET t == tasks[id[1]][id[2]]
            IN  KnownDestination(req[id[1]].legs[id[2]]) =>
                   /\ t.pc # "raised"
                   /\ t.pc = "done" => ~ResultOf(t).raised)
    /\ [][~Returning =>
             \A id \in TaskIds :
                LET t == tasks[id[1]][id[2]]
                    t2 == tasks'[id[1]][id[2]]
                    leg == req[id[1]].legs[id[2]]
                    mock_flights == get_mock_flight_data(leg.origin_airport,
                                                         leg.destination_airport)
                    mock_hotels == get_mock_hotel_data(CityOf(leg))
                IN  /\ (t.pc = "visa" /\ t2.pc # "visa" /\ Flag("flights"))
                          => t2.flight_options = mock_flights
                    /\ (t.pc = "flights" /\ t2.pc # "flights"
                           /\ last_op'.op \in FailureOps)
                          => t2.flight_options = mock_flights
                    /\ (t.pc \in {"visa", "flights"} /\ t2.pc = "done")
                          => (Flag("hotels")' /\ t2.hotel_options = mock_hotels)
                    /\ (t.pc \in {"hotel_loc", "hotel_search"} /\ t2.pc # t.pc
                           /\ last_op'.op \in FailureOps)
                          => (t2.pc = "done" /\ t2.hotel_options = mock_hotels)]_vars

\* a leg's plan is complete after a failed visa lookup, a counted flight
\* failure and a hotel failure taken as a quota signal
C13_Witness ==
    /\ last_op = Op("quota_signal", "hotels")
    /\ Count("flights") = 1
    /\ ~Flag("flights")
    /\ \E r \in Reqs : \E i \in DOMAIN tasks[r] :
          /\ tasks[r][i].pc = "done"
          /\ tasks[r][i].visa_info = NoVisa
          /\ tasks[r][i].flight_options = get_mock_flight_data(Origin, "BKK")
          /\ tasks[r][i].hotel_options = get_mock_hotel_data("Bangkok")

\* C14: a failure whose message has no "429", "quota" or "rate limit" (every
\* failure of EnvTrip) is only counted: it adds one to the service's counter,
\* and it sets the flag only when the counter reaches the threshold.
C14_TransientOnlyCounted ==
    [][\A s \in ServiceSet :
          (last_op'.op \in FailureOps /\ last_op'.svc = s) =>
             /\ Count(s)' = Count(s) + 1
             /\ (Flag(s)' /\ ~Flag(s)) => Count(s)' = ErrorThreshold]_vars

\* C15: a flight or hotel search whose request to the external API failed is
\* reported to the fetch function as a failure (and so recorded as a counted
\* error or a quota signal), never handed over as a successful result list.
C15_UpstreamFailureReported ==
    [][\A s \in ServiceSet :
          last_op'.svc = s => last_op'.op # "masked_failure"]_vars

AllMarked(block, mark) ==
    \A j \in 1..Len(block.entries) : block.entries[j].mock = mark

\* C17: in the report, the entries of a flight or hotel list that is
\* substitute data (from get_mock_flight_data / get_mock_hotel_data or from
\* the unknown-destination plan) all carry the substitute marker, and the
\* entries of a list returned by a successful live call do not.
C17_SubstituteMarked ==
    \A r \in Reqs : (req[r].pc = "done" /\ req[r].plan_content.kind = "report") =>
        \A i \in 1..Len(req[r].leg_plans) :
            LET leg == req[r].leg_plans[i].leg_details
                plan == req[r].leg_plans[i].trip_plan
                section == req[r].plan_content.legs[i]
                city == IF KnownDestination(leg) THEN CityOf(leg) ELSE "Unknown City"
            IN  /\ plan.flight_options \in
                      {get_mock_flight_data(leg.origin_airport, leg.destination_airport),
                       unknown_destination_plan.flight_options}
                      => (section.flights.available /\ AllMarked(section.flights, TRUE))
                /\ plan.hotel_options \in
                      {get_mock_hotel_data(city), unknown_destination_plan.hotel_options}
                      => (section.hotels.available /\ AllMarked(section.hotels, TRUE))
                /\ plan.flight_options = LiveFlights
                      => AllMarked(section.flights, FALSE)
                /\ plan.hotel_options = LiveHotels
                      => AllMarked(section.hotels, FALSE)

\* C18: a call for an itinerary with no legs returns, in the step that
\* makes it, a plan with no leg-plans and the report that says no legs are
\* present; it starts no leg task and leaves the quota state as it was.
C18_NoLegs ==
    [][\A r \in Reqs :
          (req[r].pc = "idle" /\ req'[r].pc # "idle" /\ req'[r].legs = <<>>) =>
             /\ req'[r].pc = "done"
             /\ req'[r].leg_plans = <<>>
             /\ req'[r].sponsorship_offers = <<>>
             /\ req'[r].plan_content = [NoReport EXCEPT !.kind = "no_legs"]
             /\ tasks' = tasks
             /\ tasks'[r] = <<>>
             /\ quota_handler' = quota_handler]_vars

\* a plan for no legs was returned while flights is substituting
C18_Witness ==
    \E r \in Reqs :
        /\ req[r].pc = "done"
        /\ req[r].legs = <<>>
        /\ req[r].leg_plans = <<>>
        /\ req[r].plan_content.kind = "no_legs"
        /\ Flag("flights")

HasOffer(offers, o) == \E j \in 1..Len(offers) : offers[j] = o

\* C19: when the user has a linked handle and some leg targets BKK (the
\* destination create_trip_plan resolves the leg's code to), the offers of
\* the plan contain every offer of the catalog that is not destination
\* specific and the destination-specific offer.
C19_FlaggedDestinationOffers ==
    \A r \in Reqs :
        (/\ req[r].pc \in {"gather", "done"}
         /\ req[r].instagram_handle
         /\ \E i \in 1..Len(req[r].legs) :
               Upper(req[r].legs[i].destination_airport) = "BKK") =>
            \A k \in 1..Len(AVAILABLE_OFFERS) :
                HasOffer(req[r].sponsorship_offers, AVAILABLE_OFFERS[k])

\* C20: for a user without a linked handle the plan has no sponsorship
\* offers, whatever the legs of the itinerary, and the report lists none.
C20_NoHandleNoOffers ==
    \A r \in Reqs :
        (req[r].pc \in {"gather", "done"} /\ ~req[r].instagram_handle) =>
            /\ req[r].sponsorship_offers = <<>>
            /\ req[r].plan_content.sponsorship = <<>>

\* the plan of a user without a handle for an itinerary with a leg to BKK
C20_Witness ==
    \E r \in Reqs :
        /\ req[r].pc = "done"
        /\ ~req[r].instagram_handle
        /\ Len(req[r].legs) = 2
        /\ req[r].legs[2].destination_airport = "BKK"
        /\ req[r].plan_content.kind = "report"
        /\ req[r].sponsorship_offers = <<>>

\* C21: when the sponsorship computation fails, the call goes on with an
\* empty offer list: it does not fail, its leg tasks are started as for any
\* call, and the returned plan has one leg-plan per leg, each the result of
\* the leg's own task (or the error plan when that task raised).
C21_SponsorshipFailureIsolated ==
    \A r \in Reqs : req[r].sponsorship_failed =>
        /\ req[r].pc \in {"gather", "done"}
        /\ req[r].sponsorship_offers = <<>>
        /\ Len(tasks[r]) = Len(req[r].legs)
        /\ req[r].pc = "done" =>
              /\ Len(req[r].leg_plans) = Len(req[r].legs)
              /\ req[r].plan_content.sponsorship = <<>>
              /\ \A i \in 1..Len(req[r].legs) :
                    /\ req[r].leg_plans[i].leg_details = req[r].legs[i]
                    /\ req[r].leg_plans[i].trip_plan =
                          (IF tasks[r][i].pc = "raised" THEN fallback_plan
                           ELSE ResultOf(tasks[r][i]))

\* sponsorship failed for a user with a handle and a leg to BKK, and the
\* plan was returned with live flights and hotels for that leg
C21_Witness ==
    \E r \in Reqs :
        /\ req[r].pc = "done"
        /\ req[r].sponsorship_failed
        /\ req[r].instagram_handle
        /\ Len(req[r].legs) = 2
        /\ req[r].legs[1].destination_airport = "BKK"
        /\ req[r].leg_plans[1].trip_plan.flight_options = LiveFlights
        /\ req[r].leg_plans[1].trip_plan.hotel_options = LiveHotels

\* a register_user call with a valid password, no database fault, for an
\* email that was stored when the call was made, now answered
DuplicateAnswered(k) ==
    /\ reg[k].pc = "responded"
    /\ reg[k].was_registered
    /\ reg[k].password_ok
    /\ ~reg[k].db_fault

\* C22: a registration with an email that is already stored when the call
\* is made is answered with 400 'Email already registered'; the stored
\* users are unchanged by it.
C22_DuplicateEmailRejected ==
    /\ [](\A k \in RegIds :
            DuplicateAnswered(k) => reg[k].status = "400 Email already registered")
    /\ [][\A k \in RegIds :
             (reg[k].was_registered /\ reg'[k].pc = "responded") => users' = users]_vars

\* what a live call of a service can tell the quota handler
CallOps == {"success", "masked_failure", "generic_failure", "quota_signal",
            "location", "no_location"}

QuotaOf(q, s) ==
    [quota_exceeded |-> is_quota_exceeded(q, s),
     error_count |-> Get(q.error_count, s, 0),
     last_check |-> Get(q.last_check, s, None)]

\* C23: a step in which a live call of one service returns or fails leaves
\* the flag, the counter and the timestamp of every other service unchanged.
C23_ServicesIndependent ==
    [][\A s \in ServiceSet :
         (last_op'.svc = s /\ last_op'.op \in CallOps)
            => \A o \in ServiceSet \ {s} :
                  QuotaOf(quota_handler', o) = QuotaOf(quota_handler, o)]_vars

\* a flight call has just signalled a quota error while hotels has counted
\* failures and is still live
C23_Witness ==
    /\ last_op = Op("quota_signal", "flights")
    /\ Flag("flights")
    /\ Count("hotels") > 0
    /\ ~Flag("hotels")

\* C24: when the location-id resolution fails or returns nothing, the task
\* ends with substitute hotel data and never enters the hotel search.
C24_NoLocationNoSearch ==
    [][\A <<r, i>> \in TaskIds :
         (/\ last_op'.op \in FailureOps \cup {"no_location"}
          /\ tasks[r][i].pc = "hotel_loc"
          /\ tasks'[r][i] # tasks[r][i])
            => /\ tasks'[r][i].pc = "done"
               /\ tasks'[r][i].hotel_options =
                     get_mock_hotel_data(CityOf(req[r].legs[i]))
               /\ tasks'[r][i].flight_options = tasks[r][i].flight_options]_vars

\* a task that got no location id has ended with substitute hotels while
\* hotels is not substituting
C24_Witness ==
    /\ last_op = Op("no_location", "hotels")
    /\ ~Flag("hotels")
    /\ \E <<r, i>> \in TaskIds :
          /\ tasks[r][i].pc = "done"
          /\ tasks[r][i].hotel_options = get_mock_hotel_data(CityOf(req[r].legs[i]))

\* C27: for every service, a counter at or above the threshold implies that
\* the service's flag is set.
C27_ThresholdImpliesFlag ==
    \A s \in ServiceSet : Count(s) >= ErrorThreshold => Flag(s)

\* failures of calls that were in flight together took the counter past
\* the threshold
C27_Witness ==
    /\ Count("flights") > ErrorThreshold
    /\ Flag("flights")
    /\ last_op = Op("generic_failure", "flights")

\* C25: when the visa lookup of a leg fails, the task goes on with no visa
\* information exactly as it would after a lookup that succeeded: the same
\* next step, the same flight and hotel options, and it has not failed.
C25_VisaFailureContinues ==
    [][\A <<r, i>> \in TaskIds :
         (/\ last_op'.op = "visa_failure"
          /\ tasks[r][i].pc = "visa"
          /\ tasks'[r][i] # tasks[r][i])
            => /\ tasks'[r][i].visa_info = NoVisa
               /\ tasks'[r][i].pc \in {"flights", "hotel_loc", "done"}
               /\ \A out \in {"row", "none"} :
                     LET leg == req[r].legs[i]
                         call == get_country_by_code(CountryOf(leg), out)
                         succeeded == flights_entry(
                                         [tasks[r][i] EXCEPT !.visa_info = call.value],
                                         quota_handler, leg, CityOf(leg))
                     IN  tasks'[r][i] = [succeeded EXCEPT !.visa_info = NoVisa]]_vars

\* a leg whose visa lookup failed has gone on to its live flight search
C25_Witness ==
    /\ last_op = Op("visa_failure", "none")
    /\ \E <<r, i>> \in TaskIds :
          tasks[r][i].pc = "flights" /\ tasks[r][i].visa_info = NoVisa

\* the positions at which a task waits for the data access, the flight
\* search, the location id or the hotel search
CallPcs == {"visa", "flights", "hotel_loc", "hotel_search"}

\* C28: the task of a leg with an unknown destination never waits for a
\* data-access, flight or hotel call, and the step that starts it leaves
\* the quota state of every service as it was.
C28_UnknownDestinationCallsNothing ==
    /\ [](\A <<r, i>> \in TaskIds :
            ~KnownDestination(req[r].legs[i]) => tasks[r][i].pc \notin CallPcs)
    /\ [][\A r \in Reqs :
             (/\ req[r].pc = "idle"
              /\ req'[r].pc = "gather"
              /\ \E i \in DOMAIN req'[r].legs : ~KnownDestination(req'[r].legs[i]))
                => quota_handler' = quota_handler]_vars

\* a call with an unknown leg has just started while flights is substituting
C28_Witness ==
    /\ Flag("flights")
    /\ last_op = Op("other", "none")
    /\ \E r \in Reqs :
          /\ req[r].pc = "gather"
          /\ \E i \in DOMAIN tasks[r] :
                /\ ~KnownDestination(req[r].legs[i])
                /\ tasks[r][i] = unknown_destination_plan
          /\ \A i \in DOMAIN tasks[r] :
                KnownDestination(req[r].legs[i]) => tasks[r][i].pc = "visa"

\* the tasks of request r whose visa query is in flight; all of them use
\* the one session the request was given
QueriesInFlight(r) == {i \in DOMAIN tasks[r] : tasks[r][i].pc = "visa"}

\* C29: within one create_full_itinerary_plan call at most one visa query
\* is in flight on the request's database session.
C29_OneQueryPerSession ==
    \A r \in Reqs : Cardinality(QueriesInFlight(r)) <= 1

\* the waits the claim names, in seconds
Backoff == <<2, 4, 8, 16>>

\* C30: init_database makes at most max_retries attempts, waits 2, 4, 8 and
\* 16 seconds after the first four failures and not after the fifth, stops
\* at the first success with True and gives up after five failures with
\* False; startup always gets to serving requests.
C30_InitDatabaseTerminates ==
    /\ [](/\ startup.attempt < max_retries
          /\ Len(startup.sleeps) <= Len(Backoff)
          /\ startup.sleeps = SubSeq(Backoff, 1, Len(startup.sleeps))
          /\ Len(startup.sleeps) =
                startup.attempt + (IF startup.pc = "sleep" THEN 1 ELSE 0)
          /\ startup.database_ready => startup.pc \in {"test_connection", "serving"}
          /\ (startup.pc = "serving" /\ ~startup.database_ready)
                => startup.attempt = max_retries - 1)
    /\ [][(startup.pc = "init_database" /\ startup'.database_ready)
             => (startup'.pc = "test_connection" /\ startup'.sleeps = startup.sleeps)]_vars
    /\ [][startup.pc \in {"test_connection", "serving"}
             => (/\ startup'.attempt = startup.attempt
                 /\ startup'.sleeps = startup.sleeps
                 /\ startup'.database_ready = startup.database_ready)]_vars
    /\ <>(startup.pc = "serving")

\* five attempts failed, with the four waits between them, and the
\* application serves requests without a database
C30_Witness ==
    /\ startup.pc = "serving"
    /\ ~startup.database_ready
    /\ startup.attempt = max_retries - 1
    /\ startup.sleeps = Backoff

\* how far a leg task is: each live call is one position
Rank(t) ==
    CASE t.pc = "pending" -> 0
      [] t.pc = "visa" -> 1
      [] t.pc = "flights" -> 2
      [] t.pc = "hotel_loc" -> 3
      [] t.pc = "hotel_search" -> 4
      [] OTHER -> 5

\* C26: a leg task only moves forward, so it waits at most once for the
\* flight search and at most once for the hotel search, and a finished task
\* stays as it is; a call that is gathering its legs gets to its assembled
\* plan with one leg-plan per leg.
C26_LegsReachAssembled ==
    /\ [][~Returning =>
             \A <<r, i>> \in TaskIds :
                (req[r].pc = "gather" /\ req'[r].pc = "gather"
                                      /\ tasks'[r][i] # tasks[r][i])
                   => (~Finished(tasks[r][i])
                       /\ Rank(tasks'[r][i]) > Rank(tasks[r][i]))]_vars
    /\ [](\A r \in Reqs : req[r].pc = "done"
            => (/\ Len(req[r].leg_plans) = Len(req[r].legs)
                /\ \A i \in DOMAIN tasks[r] : Finished(tasks[r][i])))
    /\ \A r \in Reqs : (req[r].pc = "gather") ~> (req[r].pc = "done")

\* a plan is assembled from one leg that got live flights and one that got
\* substitute flights
C26_Witness ==
    \E r \in Reqs :
        /\ req[r].pc = "done"
        /\ Len(tasks[r]) = 2
        /\ \E i, j \in DOMAIN tasks[r] :
              /\ tasks[r][i].pc = "done"
              /\ tasks[r][i].flight_options = LiveFlights
              /\ tasks[r][j].pc = "done"
              /\ tasks[r][j].flight_options =
                    get_mock_flight_data(Origin, req[r].legs[j].destination_airport)
====
